---- MODULE Spec2Model ----
(***************************************************************************)
(* Health-monitoring engine of eva-erp                                     *)
(* (backend/src/eva_platform/monitoring_service.py and                     *)
(* backend/src/eva_platform/router/monitoring.py): streak computation,     *)
(* issue lifecycle rules, alert side effect, manual acknowledge/resolve.   *)
(***************************************************************************)
EXTENDS Integers, Sequences, FiniteSets, TLC

\* ------------------------------------------------------------------ bounds
\* Number of monitoring cycles (committed or failed) explored.
MaxCycles == 3
\* Number of times the results of a cycle are persisted again.
MaxDup == 1
\* Operators acknowledge and resolve issues by hand up to this time.
MaxManualTime == 1

\* --------------------------------------------------------------- constants
\* None of a nullable timestamp / http_status column (all real values >= 0).
NULL == 0 - 1

\* FAILURE_STATES
FAILURE_STATES == {"down", "degraded"}

\* Two checks of _build_check_specs: one critical, one non-critical.
\* Order is the order of the specs list (and so of the results of a cycle).
_build_check_specs ==
    << [check_key |-> "erp-api", critical |-> TRUE],
       [check_key |-> "openai-api", critical |-> FALSE] >>

\* settings.monitoring_failure_threshold_critical / _default /
\* monitoring_recovery_threshold: the defaults of config.py, the floor case
\* (values below 1) and a configuration with other thresholds.
Settings ==
    { [monitoring_failure_threshold_critical |-> 2,
       monitoring_failure_threshold_default |-> 3,
       monitoring_recovery_threshold |-> 2],
      [monitoring_failure_threshold_critical |-> 0,
       monitoring_failure_threshold_default |-> 1,
       monitoring_recovery_threshold |-> 0],
      [monitoring_failure_threshold_critical |-> 3,
       monitoring_failure_threshold_default |-> 2,
       monitoring_recovery_threshold |-> 1] }

\* HTTP status codes a probe may observe; the result status is derived
\* from them by classify_http_status.
ProbeCodes == {200, 429, 500}

VARIABLES
    settings,   \* the configuration in force
    now,        \* _now_utc(), counted in cycle intervals
    checks,     \* table admin_monitoring_checks (append-only, committed rows)
    issues,     \* table admin_monitoring_issues (committed rows)
    alerts,     \* calls made to _send_slack_alert, in order
    results,    \* the CheckResults returned by the last persisted cycle
    failed_at,  \* 0, or the position of the result whose handling raised
    runner,     \* where the task of monitoring_runner_loop is
    stop_event, \* the asyncio.Event handed to monitoring_runner_loop
    webhook,    \* settings.monitoring_slack_webhook_url, stripped
    posts,      \* alerts the Slack webhook received, in order
    probe,      \* one execution of _run_single_check: its input and outcome
    snapshot,   \* one evaluation of should_refresh_service_snapshot
    txn,        \* the open transaction of each caller of run_monitoring_cycle
    sso         \* table consumed_sso_tokens and the sso_login requests

vars == << settings, now, checks, issues, alerts, results, failed_at,
           runner, stop_event, webhook, posts, probe, snapshot, txn, sso >>

\* The variables of the scheduler task, of the alerting sink, of the
\* function-level executions, and of the concurrent transactions and
\* requests.
loopvars == << runner, stop_event >>
sinkvars == << webhook, posts >>
concvars == << txn, sso >>
purevars == << probe, snapshot, concvars >>

\* ------------------------------------------------------------ pure helpers
Max(a, b) == IF a >= b THEN a ELSE b

\* classify_http_status that ignores success_statuses.
classify_http_status_without_overrides(status_code, success_statuses) ==
    IF status_code < 400 THEN "up"
    ELSE IF status_code < 500 THEN "degraded"
    ELSE "down"

classify_http_status(status_code, success_statuses) ==
    IF success_statuses # {} /\ status_code \in success_statuses THEN "up"
    ELSE IF status_code < 400 THEN "up"
    ELSE IF status_code < 500 THEN "degraded"
    ELSE "down"

\* compute_streaks with an up result that does not reset the failure streak.
compute_streaks_keeps_failures(prev_failures, prev_successes, current_status) ==
    IF current_status = "up"
    THEN << prev_failures, prev_successes + 1 >>
    ELSE << prev_failures + 1, 0 >>

\* compute_streaks with a failure that does not reset the success streak.
compute_streaks_keeps_successes(prev_failures, prev_successes, current_status) ==
    IF current_status = "up"
    THEN << 0, prev_successes + 1 >>
    ELSE << prev_failures + 1, prev_successes >>

\* compute_streaks in which a degraded result does not lengthen the failure
\* streak.
compute_streaks_skips_degraded(prev_failures, prev_successes, current_status) ==
    IF current_status = "up"
    THEN << 0, prev_successes + 1 >>
    ELSE IF current_status = "degraded"
    THEN << prev_failures, 0 >>
    ELSE << prev_failures + 1, 0 >>

compute_streaks(prev_failures, prev_successes, current_status) ==
    IF current_status = "up"
    THEN << 0, prev_successes + 1 >>
    ELSE << prev_failures + 1, 0 >>

classify_issue_severity(status, critical) ==
    IF status = "down" THEN (IF critical THEN "critical" ELSE "high")
    ELSE IF status = "degraded" THEN (IF critical THEN "high" ELSE "medium")
    ELSE "low"

_issue_fingerprint(check_key) == "monitoring:" \o check_key

\* _issue_summary; the results modelled carry no error_message.
_issue_summary(result) ==
    IF result.http_status # NULL THEN "HTTP " \o ToString(result.http_status)
    ELSE "Status " \o result.status

\* --------------------------------------------------------------- probing
\* _run_http_check: the CheckResult of one probe that got `code` back at
\* time `at`.
_run_http_check(spec, code, at) ==
    [ check_key |-> spec.check_key,
      status |-> classify_http_status(code, {}),
      critical |-> spec.critical,
      checked_at |-> at,
      http_status |-> code,
      consecutive_failures |-> 0,
      consecutive_successes |-> 0,
      last_success_at |-> NULL ]

\* run_live_checks: one result per spec, in spec order.
run_live_checks(codes, at) ==
    [ i \in 1..Len(_build_check_specs) |->
        _run_http_check(_build_check_specs[i], codes[i], at) ]

\* ----------------------------------------------------------- persistence
\* Rows that "ORDER BY checked_at DESC LIMIT 1" may return for a key:
\* the rows of the key with the greatest checked_at (ties are not ordered).
\* 0 stands for "no row".
_latest_check_for_key(tbl, check_key) ==
    LET mine == { i \in 1..Len(tbl) : tbl[i].check_key = check_key }
        top == { i \in mine : \A j \in mine : tbl[j].checked_at <= tbl[i].checked_at }
    IN IF mine = {} THEN {0} ELSE top

\* The issue rows with the fingerprint (the select of _apply_issue_rules).
IssueRows(tbl, fingerprint) ==
    { i \in 1..Len(tbl) : tbl[i].fingerprint = fingerprint }

failure_threshold(result) ==
    IF result.critical
    THEN settings.monitoring_failure_threshold_critical
    ELSE settings.monitoring_failure_threshold_default

\* should_open with ">" in place of ">=".
should_open_above_threshold(result) ==
    /\ result.status \in FAILURE_STATES
    /\ result.consecutive_failures > Max(failure_threshold(result), 1)

should_open(result) ==
    /\ result.status \in FAILURE_STATES
    /\ result.consecutive_failures >= Max(failure_threshold(result), 1)

\* should_resolve without the recovery threshold.
should_resolve_on_first_up(result) ==
    result.status = "up"

should_resolve(result) ==
    /\ result.status = "up"
    /\ result.consecutive_successes >=
           Max(settings.monitoring_recovery_threshold, 1)

\* The EvaMonitoringIssue built when no issue exists.
NewIssue(fingerprint, result) ==
    [ fingerprint |-> fingerprint,
      severity |-> classify_issue_severity(result.status, result.critical),
      status |-> "open",
      summary |-> _issue_summary(result),
      occurrences |-> 1,
      first_seen_at |-> result.checked_at,
      last_seen_at |-> result.checked_at,
      acknowledged_at |-> NULL,
      resolved_at |-> NULL ]

\* ReopenIssue that leaves acknowledged_at as it was.
ReopenIssue_keeps_acknowledged_at(issue) ==
    IF issue.status = "resolved"
    THEN [ issue EXCEPT !.status = "open",
                        !.resolved_at = NULL ]
    ELSE issue

\* "if was_resolved:" - the fields reset when a resolved issue fails again.
ReopenIssue(issue) ==
    IF issue.status = "resolved"
    THEN [ issue EXCEPT !.status = "open",
                        !.resolved_at = NULL,
                        !.acknowledged_at = NULL ]
    ELSE issue

\* UpdateIssue that also puts the issue back to open.
UpdateIssue_resets_status(issue, result) ==
    [ issue EXCEPT
        !.status = "open",
        !.acknowledged_at = NULL,
        !.severity = classify_issue_severity(result.status, result.critical),
        !.summary = _issue_summary(result),
        !.last_seen_at = result.checked_at,
        !.occurrences = @ + 1 ]

\* The fields refreshed on every firing of the open rule on an existing issue.
UpdateIssue(issue, result) ==
    [ issue EXCEPT
        !.severity = classify_issue_severity(result.status, result.critical),
        !.summary = _issue_summary(result),
        !.last_seen_at = result.checked_at,
        !.occurrences = @ + 1 ]

\* The resolve branch.
ResolveIssue(issue, result) ==
    [ issue EXCEPT
        !.status = "resolved",
        !.resolved_at = result.checked_at,
        !.last_seen_at = result.checked_at,
        !.summary = _issue_summary(result) ]

\* opened_event that also reports an issue that was already open.
opened_event_on_every_update(exists, status) ==
    IF ~exists THEN "opened" ELSE "reopened"

\* opened_event of the open branch: "none" stands for None.
\* exists: an issue row was found; status: its status before the update.
opened_event(exists, status) ==
    IF ~exists THEN "opened"
    ELSE IF status = "resolved" THEN "reopened"
    ELSE "none"

\* _send_slack_alert(event, issue, result): the call is recorded.
_send_slack_alert(sent, event, issue) ==
    Append(sent, [ event |-> event, fingerprint |-> issue.fingerprint,
                   severity |-> issue.severity,
                   occurrences |-> issue.occurrences ])

\* _apply_issue_rules on the session state s = [checks, issues, alerts],
\* for a result whose streaks are already computed.
_apply_issue_rules(s, result) ==
    LET fingerprint == _issue_fingerprint(result.check_key)
        found == IssueRows(s.issues, fingerprint)
        id == IF found = {} THEN 0 ELSE CHOOSE i \in found : TRUE
    IN  IF should_open(result) THEN
            LET event == opened_event(id # 0, IF id = 0 THEN "none" ELSE s.issues[id].status)
                issue == IF id = 0 THEN NewIssue(fingerprint, result)
                         ELSE UpdateIssue(ReopenIssue(s.issues[id]), result)
            IN  [ s EXCEPT
                    !.issues = IF id = 0 THEN Append(@, issue)
                               ELSE [ @ EXCEPT ![id] = issue ],
                    !.alerts = IF event # "none"
                               THEN _send_slack_alert(@, event, issue) ELSE @ ]
        ELSE IF should_resolve(result) /\ id # 0
                /\ s.issues[id].status \in {"open", "acknowledged"} THEN
            LET issue == ResolveIssue(s.issues[id], result)
            IN  [ s EXCEPT !.issues[id] = issue,
                           !.alerts = _send_slack_alert(@, "resolved", issue) ]
        ELSE s

\* The body of the loop of persist_monitoring_results for one result:
\* streaks from the previous row `prev` (0 = none), the new check row, the
\* issue rules.  s = [checks, issues, alerts, results].
PersistOne(s, result, prev) ==
    LET previous_details ==
            IF prev = 0
            THEN [ consecutive_failures |-> 0, consecutive_successes |-> 0,
                   last_success_at |-> NULL ]
            ELSE s.checks[prev].details
        streaks == compute_streaks(previous_details.consecutive_failures,
                                   previous_details.consecutive_successes,
                                   result.status)
        stamped ==
            [ result EXCEPT
                !.consecutive_failures = streaks[1],
                !.consecutive_successes = streaks[2],
                !.last_success_at =
                    IF result.status = "up" THEN result.checked_at
                    ELSE previous_details.last_success_at ]
        row ==
            [ check_key |-> stamped.check_key,
              status |-> stamped.status,
              http_status |-> stamped.http_status,
              checked_at |-> stamped.checked_at,
              details |->
                [ critical |-> stamped.critical,
                  consecutive_failures |-> stamped.consecutive_failures,
                  consecutive_successes |-> stamped.consecutive_successes,
                  last_success_at |-> stamped.last_success_at ] ]
        s2 == _apply_issue_rules([ checks |-> Append(s.checks, row),
                                   issues |-> s.issues,
                                   alerts |-> s.alerts ], stamped)
    IN  [ checks |-> s2.checks, issues |-> s2.issues, alerts |-> s2.alerts,
          results |-> Append(s.results, stamped) ]

\* persist_monitoring_results over the first `upto` results of the list;
\* prevs[i] is the row _latest_check_for_key returns for result i.
RECURSIVE persist_monitoring_results(_, _, _, _)
persist_monitoring_results(s, rs, prevs, upto) ==
    IF upto = 0 THEN s
    ELSE PersistOne(persist_monitoring_results(s, rs, prevs, upto - 1),
                    rs[upto], prevs[upto])

\* The previous rows a call may read, one per result (the keys of one call
\* are distinct, so the rows it adds itself are never among them).
RECURSIVE PrevChoicesUpTo(_, _)
PrevChoicesUpTo(rs, n) ==
    IF n = 0 THEN { << >> }
    ELSE { Append(p, c) :
             p \in PrevChoicesUpTo(rs, n - 1),
             c \in _latest_check_for_key(checks, rs[n].check_key) }

PrevChoices(rs) == PrevChoicesUpTo(rs, Len(rs))

\* The session at the start of a cycle: the committed tables.
Session == [ checks |-> checks, issues |-> issues, alerts |-> alerts,
             results |-> << >> ]

\* ------------------------------------------------------------------- Init
\* Empty tables, nothing probed yet.
InitTables ==
    /\ now = 0
    /\ checks = << >>
    /\ issues = << >>
    /\ alerts = << >>
    /\ results = << >>
    /\ failed_at = 0

\* The task was created by lifespan and is in its first iteration.
InitRunner ==
    /\ runner = "cycle"
    /\ stop_event = FALSE

\* A caller of run_monitoring_cycle and its transaction: nothing probed,
\* nothing pending.
IdleTxn ==
    [ phase |-> "idle", results |-> << >>, rows |-> << >>,
      inserts |-> << >>, updates |-> << >> ]

\* The callers of run_monitoring_cycle(eva_db): the task of
\* monitoring_runner_loop and service_status when it refreshes.
Callers == { "scheduler", "refresh" }

\* No cycle in flight; no SSO token consumed and no sso_login request made.
InitIdle ==
    /\ txn = [ c \in Callers |-> IdleTxn ]
    /\ sso = [ consumed |-> {}, requests |-> << >> ]

\* monitoring_slack_webhook_url: str = "" (the default of config.py).
InitSinkOff ==
    /\ webhook = ""
    /\ posts = << >>

\* No function-level execution is being looked at.
InitPure ==
    /\ probe = [ phase |-> "none" ]
    /\ snapshot = [ phase |-> "none" ]

Init ==
    /\ settings \in Settings
    /\ InitTables
    /\ InitRunner
    /\ InitIdle
    /\ InitSinkOff
    /\ InitPure

\* ---------------------------------------------------------------- actions
\* One iteration of monitoring_runner_loop that succeeds, an interval after
\* the previous one: run_monitoring_cycle(eva_db) then eva_db.commit().
IterationCommitted ==
    /\ now < MaxCycles
    /\ now' = now + 1
    /\ \E codes \in [ 1..Len(_build_check_specs) -> ProbeCodes ] :
         LET rs == run_live_checks(codes, now + 1) IN
         \E prevs \in PrevChoices(rs) :
           LET s == persist_monitoring_results(Session, rs, prevs, Len(rs)) IN
             /\ checks' = s.checks
             /\ issues' = s.issues
             /\ alerts' = s.alerts
             /\ results' = s.results
    /\ failed_at' = 0
    /\ UNCHANGED settings

CycleCommitted ==
    /\ IterationCommitted
    /\ UNCHANGED << loopvars, sinkvars, purevars >>

\* A failing iteration whose session commits after every result: the rows
\* and issue changes of the results handled before the failure stay.
IterationFailed_commits_each_result ==
    /\ now < MaxCycles
    /\ now' = now + 1
    /\ \E codes \in [ 1..Len(_build_check_specs) -> ProbeCodes ] :
         LET rs == run_live_checks(codes, now + 1) IN
         \E prevs \in PrevChoices(rs), at \in 1..(Len(rs) + 1) :
           LET s == persist_monitoring_results(Session, rs, prevs, at - 1) IN
             /\ checks' = s.checks
             /\ issues' = s.issues
             /\ alerts' = s.alerts
             /\ failed_at' = at
    /\ UNCHANGED << settings, results >>

\* One iteration in which the database raises while result number `at` is
\* handled (at = Len + 1: eva_db.commit() raises).  Nothing catches the
\* exception inside persist_monitoring_results; the session is left without
\* commit and "Monitoring cycle failed" is logged.  Alerts already sent
\* stay sent.
IterationFailed ==
    /\ now < MaxCycles
    /\ now' = now + 1
    /\ \E codes \in [ 1..Len(_build_check_specs) -> ProbeCodes ] :
         LET rs == run_live_checks(codes, now + 1) IN
         \E prevs \in PrevChoices(rs), at \in 1..(Len(rs) + 1) :
           LET s == persist_monitoring_results(Session, rs, prevs, at - 1) IN
             /\ alerts' = s.alerts
             /\ failed_at' = at
    /\ UNCHANGED << settings, checks, issues, results >>

CycleFailed ==
    /\ IterationFailed
    /\ UNCHANGED << loopvars, sinkvars, purevars >>

\* persist_monitoring_results called once more, within the same instant,
\* with CheckResults identical to those of the last call (same check_key,
\* status and checked_at), and committed.  Every cycle so far added one row
\* per spec; the rows beyond that were added by duplicates.
Duplicates == Len(checks) - now * Len(_build_check_specs)

PersistDuplicate ==
    /\ results # << >>
    /\ failed_at = 0
    /\ results[1].checked_at = now
    /\ Duplicates < MaxDup * Len(_build_check_specs)
    /\ LET rs == [ i \in 1..Len(results) |->
                     _run_http_check(_build_check_specs[i],
                                     results[i].http_status,
                                     results[i].checked_at) ] IN
       \E prevs \in PrevChoices(rs) :
         LET s == persist_monitoring_results(Session, rs, prevs, Len(rs)) IN
           /\ checks' = s.checks
           /\ issues' = s.issues
           /\ alerts' = s.alerts
           /\ results' = s.results
    /\ UNCHANGED << settings, now, failed_at, loopvars, sinkvars, purevars >>

\* acknowledge_issue without the "already resolved" rejection.
acknowledge_issue_unguarded(issue_id) ==
    /\ now <= MaxManualTime
    /\ issue_id \in 1..Len(issues)
    /\ issues' = [ issues EXCEPT ![issue_id].status = "acknowledged",
                                 ![issue_id].acknowledged_at = now ]
    /\ UNCHANGED << settings, now, checks, alerts, results, failed_at,
                    loopvars, sinkvars, purevars >>

\* POST /monitoring/issues/{issue_id}/acknowledge
acknowledge_issue(issue_id) ==
    /\ now <= MaxManualTime
    /\ issue_id \in 1..Len(issues)
    /\ issues[issue_id].status # "resolved"
    /\ issues' = [ issues EXCEPT ![issue_id].status = "acknowledged",
                                 ![issue_id].acknowledged_at = now ]
    /\ UNCHANGED << settings, now, checks, alerts, results, failed_at,
                    loopvars, sinkvars, purevars >>

\* resolve_issue that does not stamp resolved_at.
resolve_issue_without_timestamp(issue_id) ==
    /\ now <= MaxManualTime
    /\ issue_id \in 1..Len(issues)
    /\ issues' = [ issues EXCEPT ![issue_id].status = "resolved" ]
    /\ UNCHANGED << settings, now, checks, alerts, results, failed_at,
                    loopvars, sinkvars, purevars >>

\* POST /monitoring/issues/{issue_id}/resolve
resolve_issue(issue_id) ==
    /\ now <= MaxManualTime
    /\ issue_id \in 1..Len(issues)
    /\ issues' = [ issues EXCEPT ![issue_id].status = "resolved",
                                 ![issue_id].resolved_at = now ]
    /\ UNCHANGED << settings, now, checks, alerts, results, failed_at,
                    loopvars, sinkvars, purevars >>

Acknowledge == \E issue_id \in 1..Len(issues) : acknowledge_issue(issue_id)

Resolve == \E issue_id \in 1..Len(issues) : resolve_issue(issue_id)

\* Persisted cycles interleaved with the operators' manual overrides.
Next == CycleCommitted \/ Acknowledge \/ Resolve

Spec == Init /\ [][Next]_vars

\* Cycles some of which fail while persisting.
NextFail == CycleCommitted \/ CycleFailed

SpecFail == Init /\ [][NextFail]_vars

\* Automatic rules only: every cycle is persisted and nobody touches the
\* issues by hand.
NextRules == CycleCommitted

SpecRules == Init /\ [][NextRules]_vars

\* Persisted cycles, some of them persisted twice.
NextDup == CycleCommitted \/ PersistDuplicate

SpecDup == Init /\ [][NextDup]_vars

TypeOK ==
    /\ now \in 0..MaxCycles
    /\ \A i \in 1..Len(issues) :
         /\ issues[i].status \in {"open", "acknowledged", "resolved"}
         /\ issues[i].severity \in {"critical", "high", "medium", "low"}

\* ------------------------------------------------- vocabulary of the claims
Specs == { _build_check_specs[i] : i \in 1..Len(_build_check_specs) }

\* The persisted rows of one check, oldest first.
RowsOf(check_key) == SelectSeq(checks, LAMBDA r : r.check_key = check_key)

\* The alert events sent for one fingerprint, within a sequence of alerts.
EventsFor(sent, fingerprint) ==
    LET mine == SelectSeq(sent, LAMBDA a : a.fingerprint = fingerprint)
    IN  [ i \in 1..Len(mine) |-> mine[i].event ]

\* The alerts sent by the step.
NewAlerts == SubSeq(alerts', Len(alerts) + 1, Len(alerts'))

\* The configured failure threshold of a check, floored at 1.
Threshold(critical) ==
    Max(IF critical THEN settings.monitoring_failure_threshold_critical
        ELSE settings.monitoring_failure_threshold_default, 1)

RecoveryThreshold == Max(settings.monitoring_recovery_threshold, 1)

\* The step is a cycle whose results were persisted.
PersistedCycle == now' = now + 1 /\ Len(checks') > Len(checks)

\* The row of the issue of a fingerprint in a table, 0 if there is none.
IssueId(tbl, fingerprint) ==
    IF IssueRows(tbl, fingerprint) = {} THEN 0
    ELSE CHOOSE i \in IssueRows(tbl, fingerprint) : TRUE

\* The critical check returned HTTP 500 in each of its n persisted cycles.
AllDown(n) ==
    /\ settings.monitoring_failure_threshold_critical = 2
    /\ Len(RowsOf("erp-api")) = n
    /\ \A i \in 1..n : RowsOf("erp-api")[i].http_status = 500

\* What C1 says of the issue after the second and the third cycle, with
\* `occ` the occurrences expected after the third.
ThreeCycles(occ) ==
    LET fp == "monitoring:erp-api"
        mine == IssueRows(issues, fp)
        id == IssueId(issues, fp)
    IN  /\ AllDown(1) => (mine = {} /\ EventsFor(alerts, fp) = << >>)
        /\ AllDown(2) =>
             /\ Cardinality(mine) = 1
             /\ issues[id].status = "open"
             /\ issues[id].severity = "critical"
             /\ EventsFor(alerts, fp) = << "opened" >>
        /\ AllDown(3) =>
             /\ Cardinality(mine) = 1
             /\ issues[id].first_seen_at = RowsOf("erp-api")[2].checked_at
             /\ issues[id].occurrences = occ
             /\ issues[id].severity = "critical"
             /\ EventsFor(alerts, fp) = << "opened" >>

\* C1 as stated: a critical check returns 500 in three consecutive persisted
\* cycles with failure_threshold_critical = 2 and nothing before: no issue
\* after cycle 1; one open critical issue and one "opened" alert after
\* cycle 2; the same issue with occurrences = 3 and no further alert after
\* cycle 3.
C1_ThreeCyclesOccurrences3 == ThreeCycles(3)

\* C1 amended: as above, but after cycle 3 the issue has occurrences = 2 (it
\* is created with occurrences = 1 in cycle 2 and incremented once in
\* cycle 3).
C1_ThreeCyclesOccurrences2 == ThreeCycles(2)

C1_Witness ==
    /\ AllDown(3)
    /\ IssueRows(issues, "monitoring:erp-api") # {}

Alternates(rows) ==
    \A j \in 1..(Len(rows) - 1) : (rows[j].status = "up") # (rows[j + 1].status = "up")

\* C2: with a failure threshold >= 2, a check whose persisted results
\* strictly alternate between up and not-up has no issue and no alert was
\* ever sent for it.
C2_FlapSuppression ==
    \A spec \in Specs :
        (Threshold(spec.critical) >= 2 /\ Alternates(RowsOf(spec.check_key)))
        => /\ IssueRows(issues, _issue_fingerprint(spec.check_key)) = {}
           /\ EventsFor(alerts, _issue_fingerprint(spec.check_key)) = << >>

C2_Witness ==
    \E spec \in Specs :
        /\ Threshold(spec.critical) = 2
        /\ Len(RowsOf(spec.check_key)) = 3
        /\ Alternates(RowsOf(spec.check_key))
        /\ RowsOf(spec.check_key)[1].status = "down"
        /\ RowsOf(spec.check_key)[3].status = "down"

\* The alert events the transition of one issue in a step calls for.
ExpectedEvents(fingerprint) ==
    LET before == IssueId(issues, fingerprint)
        after == IssueId(issues', fingerprint)
    IN  IF before = 0 /\ after # 0 THEN << "opened" >>
        ELSE IF before = 0 THEN << >>
        ELSE IF issues[before].status = "resolved"
                /\ issues'[before].status = "open" THEN << "reopened" >>
        ELSE IF issues[before].status \in {"open", "acknowledged"}
                /\ issues'[before].status = "resolved" THEN << "resolved" >>
        ELSE << >>

\* C3: a persisted cycle calls the alerting sink exactly once for each issue
\* it creates ("opened"), reopens ("reopened") or resolves ("resolved"), and
\* not at all for an issue it leaves open or acknowledged.
C3_OneAlertPerTransition ==
    [][ PersistedCycle =>
          \A spec \in Specs :
             EventsFor(NewAlerts, _issue_fingerprint(spec.check_key))
               = ExpectedEvents(_issue_fingerprint(spec.check_key)) ]_vars

C3_Witness ==
    /\ EventsFor(alerts, "monitoring:erp-api") = << "opened", "resolved", "reopened" >>
    /\ EventsFor(alerts, "monitoring:openai-api") = << "opened" >>
    /\ issues[IssueId(issues, "monitoring:openai-api")].occurrences = 3

\* C4: when the issue of a check is resolved and a persisted result of the
\* check is degraded or down with consecutive_failures at or above the
\* threshold, the issue is open again with acknowledged_at and resolved_at
\* null, it is still the only row of its fingerprint, and exactly one alert,
\* tagged "reopened", is sent for it.
C4_Reopen ==
    [][ PersistedCycle =>
          \A i \in 1..Len(results') :
             LET r == results'[i]
                 fp == _issue_fingerprint(r.check_key)
                 id == IssueId(issues, fp)
             IN  ( /\ id # 0
                   /\ issues[id].status = "resolved"
                   /\ r.status \in {"degraded", "down"}
                   /\ r.consecutive_failures >= Threshold(r.critical) )
                 => /\ issues'[id].status = "open"
                    /\ issues'[id].acknowledged_at = NULL
                    /\ issues'[id].resolved_at = NULL
                    /\ IssueRows(issues', fp) = {id}
                    /\ EventsFor(NewAlerts, fp) = << "reopened" >> ]_vars

C4_Witness ==
    \E id \in 1..Len(issues) :
        /\ issues[id].status = "open"
        /\ issues[id].occurrences = 2
        /\ alerts # << >>
        /\ alerts[Len(alerts)].event = "reopened"
        /\ alerts[Len(alerts)].fingerprint = issues[id].fingerprint

\* C5: a persisted result resolves the issue of its check exactly when it is
\* up, consecutive_successes >= the recovery threshold (floored at 1) and the
\* issue is open or acknowledged; resolved_at is then the result's
\* checked_at.  An up result for a check with no issue, or with a resolved
\* issue, changes no issue and sends no alert.
C5_ResolveRule ==
    [][ PersistedCycle =>
          \A i \in 1..Len(results') :
             LET r == results'[i]
                 fp == _issue_fingerprint(r.check_key)
                 id == IssueId(issues, fp)
                 fires == /\ r.status = "up"
                          /\ r.consecutive_successes >= RecoveryThreshold
                          /\ id # 0
                          /\ issues[id].status \in {"open", "acknowledged"}
             IN  /\ fires => /\ issues'[id].status = "resolved"
                             /\ issues'[id].resolved_at = r.checked_at
                 /\ (~fires /\ id # 0 /\ issues[id].status # "resolved")
                       => issues'[id].status # "resolved"
                 /\ (r.status = "up" /\ id = 0)
                       => /\ IssueRows(issues', fp) = {}
                          /\ EventsFor(NewAlerts, fp) = << >>
                 /\ (r.status = "up" /\ id # 0 /\ issues[id].status = "resolved")
                       => /\ issues'[id] = issues[id]
                          /\ EventsFor(NewAlerts, fp) = << >> ]_vars

C5_Witness ==
    \E id \in 1..Len(issues) :
        /\ issues[id].status = "resolved"
        /\ issues[id].acknowledged_at # NULL
        /\ alerts # << >>
        /\ alerts[Len(alerts)].event = "resolved"
        /\ alerts[Len(alerts)].fingerprint = issues[id].fingerprint

Lifecycle ==
    { << "open", "acknowledged" >>, << "acknowledged", "open" >>,
      << "open", "resolved" >>, << "acknowledged", "resolved" >>,
      << "resolved", "open" >> }

C8_ExclusiveStreaks ==
    /\ \A i \in 1..Len(results) :
         /\ results[i].consecutive_failures > 0 => results[i].consecutive_successes = 0
         /\ results[i].consecutive_successes > 0 => results[i].consecutive_failures = 0
    /\ \A i \in 1..Len(checks) :
         /\ checks[i].details.consecutive_failures > 0
               => checks[i].details.consecutive_successes = 0
         /\ checks[i].details.consecutive_successes > 0
               => checks[i].details.consecutive_failures = 0

C8_Witness ==
    \E spec \in Specs :
        LET rows == RowsOf(spec.check_key) IN
        /\ Len(rows) = 3
        /\ rows[2].details.consecutive_successes = 2
        /\ rows[3].details.consecutive_failures = 1

\* The step persists again results already persisted at the same instant.
DuplicatePersist == now' = now /\ Len(checks') > Len(checks)

\* C9: persisting identical duplicate CheckResults (same check_key, same
\* checked_at) a second time leaves the issues as the first run left them:
\* no issue is opened by the duplicate and no occurrences is incremented.
C9_DuplicateIsIdempotent ==
    [][ DuplicatePersist => issues' = issues ]_vars

\* C10: when handling one result of a cycle raises, every other result of
\* the cycle still gets its check row written.
C10_OtherResultsPersisted ==
    [][ (now' = now + 1 /\ failed_at' \in 1..Len(_build_check_specs)) =>
          \A j \in (1..Len(_build_check_specs)) \ {failed_at'} :
             \E i \in (Len(checks) + 1)..Len(checks') :
                /\ checks'[i].check_key = _build_check_specs[j].check_key
                /\ checks'[i].checked_at = now' ]_vars

\* C11: persisting one cycle is all-or-nothing.  An iteration either commits
\* and then the tables hold the old rows plus one check row per spec of this
\* cycle, in spec order, and an issue seen in this cycle for every result
\* that is at its failure threshold; or it fails and then the check and
\* issue tables are exactly what they were.
C11_CycleAllOrNothing ==
    [][ now' = now + 1 =>
          \/ /\ failed_at' = 0
             /\ Len(checks') = Len(checks) + Len(_build_check_specs)
             /\ SubSeq(checks', 1, Len(checks)) = checks
             /\ \A i \in 1..Len(_build_check_specs) :
                  /\ checks'[Len(checks) + i].check_key
                        = _build_check_specs[i].check_key
                  /\ checks'[Len(checks) + i].checked_at = now'
                  /\ should_open(results'[i]) =>
                        \E j \in 1..Len(issues') :
                          /\ issues'[j].fingerprint
                                = _issue_fingerprint(_build_check_specs[i].check_key)
                          /\ issues'[j].last_seen_at = now'
          \/ /\ failed_at' # 0
             /\ checks' = checks
             /\ issues' = issues ]_vars

\* A second cycle failed after its first result had opened an issue and sent
\* the alert: the tables still hold the first cycle only, and no issue.
C11_Witness ==
    /\ now = 2
    /\ failed_at > 1
    /\ Len(checks) = Len(_build_check_specs)
    /\ alerts # << >>
    /\ issues = << >>

\* ======================================================= probe executors
\* Number of calls the test double of the HTTP client has an answer for.
MaxAttempts == 3

Min(a, b) == IF a <= b THEN a ELSE b

\* A str is a sequence of words; an Optional[str] is None or Some(str).
None == << >>
Some(x) == << x >>

\* s[:n]
Truncate(s, n) == SubSeq(s, 1, Min(Len(s), n))

\* `needle in s` for a needle of consecutive words.
Contains(s, needle) ==
    \E k \in 0..(Len(s) - Len(needle)) :
        \A i \in 1..Len(needle) : s[k + i] = needle[i]

\* What one client.get (or one database round trip) does: it returns a
\* response with a status code (exc = ""), or raises exc(msg).
Returned(code) == [ code |-> code, exc |-> "", msg |-> << >> ]
Raised(exc, msg) == [ code |-> NULL, exc |-> exc, msg |-> msg ]

Responses ==
    { Returned(200), Returned(429), Returned(500),
      Raised("ReadTimeout", << "timed", "out" >>),
      Raised("ReadTimeout", << >>) }

DbOutcomes ==
    { Returned(0),
      Raised("OperationalError", << "connection", "refused" >>) }

\* CheckSpec.kind: the kinds _build_check_specs uses, and the two more
\* that the test suite builds specs with.
Kinds ==
    { "http", "erp_db", "eva_db", "external_db", "openai", "facturapi",
      "supabase_admin", "supabase_auth", "sendgrid" }

DbKinds == { "erp_db", "eva_db", "external_db" }

\* The setting that holds the secret of a kind ("" for a kind without one).
SecretSetting(kind) ==
    CASE kind = "openai" -> "openai_api_key"
      [] kind = "facturapi" -> "facturapi_api_key"
      [] kind = "supabase_admin" -> "supabase_service_role_key"
      [] kind = "supabase_auth" -> "monitoring_supabase_auth_api_key"
      [] kind = "sendgrid" -> "sendgrid_api_key"
      [] OTHER -> ""

\* headers: a dict with at most the keys Authorization and apikey
\* ("" = the key is absent).
NoHeaders == [ Authorization |-> "", apikey |-> "" ]

\* CheckResult of an executor, with what the caller and the client saw:
\* raised (the executor raised instead of returning), calls (number of
\* client.get calls) and headers (those of the last client.get).
ProbeResult(status, http_status, error_message, calls, headers) ==
    [ status |-> status, http_status |-> http_status,
      error_message |-> error_message, raised |-> FALSE,
      calls |-> calls, headers |-> headers ]

\* An exception that leaves the executor.
ProbeRaised(calls, headers) ==
    [ status |-> "none", http_status |-> NULL, error_message |-> None,
      raised |-> TRUE, calls |-> calls, headers |-> headers ]

NoResult ==
    [ status |-> "none", http_status |-> NULL, error_message |-> None,
      raised |-> FALSE, calls |-> 0, headers |-> NoHeaders ]

\* _run_http_check(client, spec), failure paths included.  client is the
\* script of the answers of successive client.get calls.
run_http_check(client, target, headers) ==
    IF target = ""
    THEN ProbeResult("degraded", NULL,
                     Some(<< "Monitoring", "target", "is", "not", "configured" >>),
                     0, NoHeaders)
    ELSE LET response == client[1] IN
         IF response.exc = ""
         THEN ProbeResult(classify_http_status(response.code, {}),
                          response.code, None, 1, headers)
         ELSE ProbeResult("down", NULL, Some(Truncate(response.msg, 300)),
                          1, headers)

_run_openai_check(client, p) ==
    IF p.secret = ""
    THEN ProbeResult("degraded", NULL,
                     Some(<< "OPENAI_API_KEY", "not", "configured" >>),
                     0, NoHeaders)
    ELSE run_http_check(client, p.target,
                        [ Authorization |-> "Bearer " \o p.secret,
                          apikey |-> "" ])

_run_facturapi_check(client, p) ==
    LET facturapi_api_key == IF p.api_key # "" THEN p.api_key ELSE p.secret
    IN  IF facturapi_api_key = ""
        THEN ProbeResult("degraded", NULL,
                         Some(<< "FacturAPI", "API", "key", "not", "configured" >>),
                         0, NoHeaders)
        ELSE run_http_check(client, p.target,
                            [ Authorization |-> "Bearer " \o facturapi_api_key,
                              apikey |-> "" ])

_run_supabase_admin_check(client, p) ==
    IF p.secret = ""
    THEN ProbeResult("degraded", NULL,
                     Some(<< "SUPABASE_SERVICE_ROLE_KEY", "not", "configured" >>),
                     0, NoHeaders)
    ELSE run_http_check(client, p.target,
                        [ Authorization |-> "Bearer " \o p.secret,
                          apikey |-> p.secret ])

_run_erp_db_check(p) ==
    IF p.db.exc = ""
    THEN ProbeResult("up", NULL, None, 0, NoHeaders)
    ELSE ProbeResult("down", NULL, Some(Truncate(p.db.msg, 300)), 0, NoHeaders)

_run_eva_db_check(p) ==
    IF ~p.eva_engine
    THEN ProbeResult("degraded", NULL,
                     Some(<< "EVA_DATABASE_URL", "not", "configured" >>),
                     0, NoHeaders)
    ELSE IF p.db.exc = ""
    THEN ProbeResult("up", NULL, None, 0, NoHeaders)
    ELSE ProbeResult("down", NULL, Some(Truncate(p.db.msg, 300)), 0, NoHeaders)

\* _run_external_db_check whose connect is outside the try block.
_run_external_db_check_unguarded(p) ==
    IF p.target = ""
    THEN ProbeResult("degraded", NULL,
                     Some(<< "External", "DB", "URL", "is", "not", "configured" >>),
                     0, NoHeaders)
    ELSE IF p.db.exc = ""
    THEN ProbeResult("up", NULL, None, 0, NoHeaders)
    ELSE ProbeRaised(0, NoHeaders)

_run_external_db_check(p) ==
    IF p.target = ""
    THEN ProbeResult("degraded", NULL,
                     Some(<< "External", "DB", "URL", "is", "not", "configured" >>),
                     0, NoHeaders)
    ELSE IF p.db.exc = ""
    THEN ProbeResult("up", NULL, None, 0, NoHeaders)
    ELSE ProbeResult("down", NULL, Some(Truncate(p.db.msg, 300)), 0, NoHeaders)

\* _run_single_check: the dispatch on spec.kind; every kind it does not
\* name goes to _run_http_check with the headers of the spec (none).
_run_single_check(p) ==
    CASE p.kind = "erp_db" -> _run_erp_db_check(p)
      [] p.kind = "eva_db" -> _run_eva_db_check(p)
      [] p.kind = "external_db" -> _run_external_db_check(p)
      [] p.kind = "openai" -> _run_openai_check(p.client, p)
      [] p.kind = "facturapi" -> _run_facturapi_check(p.client, p)
      [] p.kind = "supabase_admin" -> _run_supabase_admin_check(p.client, p)
      [] OTHER -> run_http_check(p.client, p.target, NoHeaders)

\* The executions looked at, per kind: target set or not, the secret of
\* the kind (settings) set or not, spec.api_key set or not (facturapi
\* specs), the EVA engine configured or not, and what the network or the
\* database does.
ProbeInputs(kind) ==
    [ phase : {"ready"},
      kind : {kind},
      target : {"", "https://example.com/health"},
      secret : IF SecretSetting(kind) = "" THEN {""} ELSE {"", "sk-settings"},
      api_key : IF kind = "facturapi" THEN {"", "sk-spec"} ELSE {""},
      eva_engine : IF kind = "eva_db" THEN BOOLEAN ELSE {TRUE},
      db : IF kind \in DbKinds THEN DbOutcomes ELSE {Returned(0)},
      client : IF kind \in DbKinds THEN {[ i \in 1..MaxAttempts |-> Returned(200) ]}
               ELSE [ 1..MaxAttempts -> Responses ],
      result : {NoResult} ]

DefaultSettings ==
    [ monitoring_failure_threshold_critical |-> 2,
      monitoring_failure_threshold_default |-> 3,
      monitoring_recovery_threshold |-> 2 ]

InitProbe ==
    /\ settings = DefaultSettings
    /\ InitTables
    /\ InitRunner
    /\ InitIdle
    /\ InitSinkOff
    /\ snapshot = [ phase |-> "none" ]
    /\ probe \in UNION { ProbeInputs(kind) : kind \in Kinds }

\* await _run_single_check(client, spec)
Execute ==
    /\ probe.phase = "ready"
    /\ probe' = [ probe EXCEPT !.phase = "done",
                               !.result = _run_single_check(probe) ]
    /\ UNCHANGED << settings, now, checks, issues, alerts, results, failed_at,
                    loopvars, sinkvars, snapshot, concvars >>

NextProbe == Execute

SpecProbe == InitProbe /\ [][NextProbe]_vars

\* C12: an executor never raises to its caller and the status it returns is
\* one of up, degraded, down: whatever the kind, with the target or the
\* credential missing, on a network error or timeout, on any response code
\* and on a database exception.
C12_ExecutorsNeverRaise ==
    probe.phase = "done" =>
        /\ ~probe.result.raised
        /\ probe.result.status \in {"up", "degraded", "down"}

\* A database exception ended as a down result carrying the message.
C12_Witness ==
    /\ probe.phase = "done"
    /\ probe.kind = "external_db"
    /\ probe.target # ""
    /\ probe.db.exc # ""
    /\ probe.result.status = "down"
    /\ probe.result.error_message = Some(probe.db.msg)

\* The generic HTTP probe: a spec of the default kind with a target.
GenericHttpProbe ==
    /\ probe.phase = "done"
    /\ probe.kind = "http"
    /\ probe.target # ""

\* The calls, among the first three, that get a response.
Answered == { i \in 1..3 : probe.client[i].exc = "" }

\* C13: the generic HTTP probe retries a transport error up to 2 more times.
\* When one of the first three calls gets a response, the result is that of
\* the first such call (up with http_status 200 for a 200) and the client
\* was called once per attempt up to it; the result is down, after three
\* calls, only when all three raise.
C13_RetriesTransientError ==
    GenericHttpProbe =>
        IF Answered # {}
        THEN LET k == CHOOSE i \in Answered : \A j \in Answered : i <= j
             IN  /\ probe.result.calls = k
                 /\ probe.result.http_status = probe.client[k].code
                 /\ probe.result.status
                      = classify_http_status(probe.client[k].code, {})
        ELSE /\ probe.result.calls = 3
             /\ probe.result.status = "down"

\* C14: a failure recorded for a transport exception has an error_message
\* that is not empty and contains the type name of the exception, also when
\* the exception has an empty message.
C14_ErrorMessageNeverBlank ==
    GenericHttpProbe /\ probe.client[probe.result.calls].exc # "" =>
        /\ probe.result.error_message # None
        /\ probe.result.error_message[1] # << >>
        /\ Contains(probe.result.error_message[1],
                    << probe.client[probe.result.calls].exc >>)

\* The kinds that need a secret, and the secrets configured for the probe.
SecretKinds == { kind \in Kinds : SecretSetting(kind) # "" }

ConfiguredKeys == { probe.api_key, probe.secret } \ { "" }

\* C15: a probe of a kind that needs a secret, with no key configured,
\* returns degraded with "not configured" in the error_message and does not
\* call the HTTP client; with a key configured, the GET it makes carries the
\* key as Authorization bearer (and as apikey for the Supabase kinds).
C15_SecretKinds ==
    probe.phase = "done" /\ probe.kind \in SecretKinds =>
        /\ ConfiguredKeys = {} =>
             /\ probe.result.status = "degraded"
             /\ probe.result.error_message # None
             /\ Contains(probe.result.error_message[1], << "not", "configured" >>)
             /\ probe.result.calls = 0
        /\ ConfiguredKeys # {} /\ probe.result.calls > 0 =>
             /\ \E key \in ConfiguredKeys :
                  /\ probe.result.headers.Authorization = "Bearer " \o key
                  /\ probe.kind \in {"supabase_admin", "supabase_auth"} =>
                       probe.result.headers.apikey = key

\* ====================================================== service snapshot
\* _now_utc() of the request, in seconds, and the checked_at of the latest
\* row of a check (NULL: the check has no row).
RequestTime == 200
CheckedAtValues == {NULL, 0, 100, 150, 170, 190}

\* settings.monitoring_interval_seconds and monitoring_stale_after_seconds.
IntervalSeconds == {5, 30, 60}
StaleAfterSeconds == {10, 120}

\* The latest row of a check as the snapshot query returns it.
LatestRows == [ status : {"up", "down"}, checked_at : CheckedAtValues ]

\* latest_service_items_from_db: one item per spec, from the latest row of
\* its check_key (latest[i]); an item without a row is down and stale.
latest_service_items_from_db(specs, latest, at, stale_after_seconds) ==
    LET stale_after == Max(stale_after_seconds, 30) IN
    [ i \in 1..Len(specs) |->
        IF latest[i].checked_at = NULL
        THEN [ check_key |-> specs[i].check_key, status |-> "down",
               checked_at |-> NULL, critical |-> specs[i].critical,
               stale |-> TRUE ]
        ELSE LET stale == (at - latest[i].checked_at) > stale_after IN
             [ check_key |-> specs[i].check_key,
               status |-> IF stale /\ latest[i].status = "up"
                          THEN "degraded" ELSE latest[i].status,
               checked_at |-> latest[i].checked_at,
               critical |-> specs[i].critical,
               stale |-> stale ] ]

\* The for loop of should_refresh_service_snapshot from item i on:
\* returned = the loop hit "return True", otherwise latest_checked_at is
\* the greatest checked_at seen (NULL = None).
RECURSIVE ScanItems(_, _, _)
ScanItems(items, i, latest_checked_at) ==
    IF i > Len(items)
    THEN [ returned |-> FALSE, latest_checked_at |-> latest_checked_at ]
    ELSE LET checked_at == items[i].checked_at
             latest == IF checked_at # NULL
                          /\ (latest_checked_at = NULL \/ checked_at > latest_checked_at)
                       THEN checked_at ELSE latest_checked_at
         IN  IF items[i].critical /\ items[i].stale
             THEN [ returned |-> TRUE, latest_checked_at |-> latest ]
             ELSE ScanItems(items, i + 1, latest)

\* should_refresh_service_snapshot that looks at the age of the newest row
\* only.
should_refresh_service_snapshot_by_age_only(items, at, interval_seconds) ==
    IF items = << >> THEN TRUE
    ELSE LET refresh_after == Max(interval_seconds * 2, 30)
             dated == { i \in 1..Len(items) : items[i].checked_at # NULL }
         IN  IF dated = {} THEN TRUE
             ELSE \A i \in dated : (at - items[i].checked_at) > refresh_after

should_refresh_service_snapshot(items, at, interval_seconds) ==
    IF items = << >> THEN TRUE
    ELSE LET refresh_after == Max(interval_seconds * 2, 30)
             scan == ScanItems(items, 1, NULL)
         IN  IF scan.returned THEN TRUE
             ELSE IF scan.latest_checked_at = NULL THEN TRUE
             ELSE (at - scan.latest_checked_at) > refresh_after

\* The snapshots looked at: the first n specs of _build_check_specs (n = 0:
\* an empty snapshot), each with a latest row or none.
SnapshotInputs ==
    UNION { [ phase : {"ready"},
              specs : { SubSeq(_build_check_specs, 1, n) },
              latest : [ 1..n -> LatestRows ],
              interval_seconds : IntervalSeconds,
              stale_after_seconds : StaleAfterSeconds,
              items : { << >> },
              refresh : { FALSE } ] : n \in 0..Len(_build_check_specs) }

InitSnapshot ==
    /\ settings = DefaultSettings
    /\ InitTables
    /\ InitRunner
    /\ InitIdle
    /\ InitSinkOff
    /\ probe = [ phase |-> "none" ]
    /\ snapshot \in SnapshotInputs

\* service_status: the items from the database, then the decision to
\* refresh them.
EvaluateSnapshot ==
    /\ snapshot.phase = "ready"
    /\ LET items == latest_service_items_from_db(snapshot.specs, snapshot.latest,
                        RequestTime, snapshot.stale_after_seconds)
       IN  snapshot' = [ snapshot EXCEPT
                           !.phase = "done",
                           !.items = items,
                           !.refresh = should_refresh_service_snapshot(
                                           items, RequestTime,
                                           snapshot.interval_seconds) ]
    /\ UNCHANGED << settings, now, checks, issues, alerts, results, failed_at,
                    loopvars, sinkvars, probe, concvars >>

NextSnapshot == EvaluateSnapshot

SpecSnapshot == InitSnapshot /\ [][NextSnapshot]_vars

\* The items that carry a checked_at, and the newest checked_at.
Dated(items) == { i \in 1..Len(items) : items[i].checked_at # NULL }

MaxCheckedAt(items) ==
    CHOOSE t \in { items[i].checked_at : i \in Dated(items) } :
        \A i \in Dated(items) : items[i].checked_at <= t

\* C16: the decision is to refresh exactly when the snapshot is empty, or
\* no item has a checked_at, or the newest checked_at is more than
\* max(2 x interval, 30) seconds old, or some critical item is stale.
C16_ShouldRefresh ==
    snapshot.phase = "done" =>
        LET items == snapshot.items IN
        snapshot.refresh <=>
            \/ items = << >>
            \/ Dated(items) = {}
            \/ /\ Dated(items) # {}
               /\ RequestTime - MaxCheckedAt(items)
                    > Max(2 * snapshot.interval_seconds, 30)
            \/ \E i \in 1..Len(items) : items[i].critical /\ items[i].stale

\* One stale critical check forces the refresh although the other check is
\* fresh and the newest row is young enough.
C16_Witness ==
    /\ snapshot.phase = "done"
    /\ snapshot.refresh
    /\ Len(snapshot.items) = 2
    /\ snapshot.items[1].critical /\ snapshot.items[1].stale
    /\ snapshot.items[1].checked_at # NULL
    /\ ~snapshot.items[2].stale
    /\ RequestTime - MaxCheckedAt(snapshot.items)
         <= Max(2 * snapshot.interval_seconds, 30)

\* ======================================================== scheduler task
\* runner: "cycle" = inside the try block of an iteration (probing,
\* persisting or committing), "sleeping" = in wait_for(stop_event.wait()),
\* "stopped" = the while loop ended, "cancelled" = CancelledError left
\* monitoring_runner_loop.
Terminal == { "stopped", "cancelled" }

\* An exception that no handler of the iteration catches ends the task.
on_cycle_exception_uncaught == "stopped"

\* "except Exception: logger.exception(...)": the loop goes on to its sleep.
on_cycle_exception == "sleeping"

\* The iteration in flight commits.
RunnerCommitted ==
    /\ runner = "cycle"
    /\ IterationCommitted
    /\ runner' = "sleeping"
    /\ UNCHANGED << stop_event, sinkvars, purevars >>

\* The iteration in flight raises an Exception.
RunnerFailed ==
    /\ runner = "cycle"
    /\ IterationFailed
    /\ runner' = on_cycle_exception
    /\ UNCHANGED << stop_event, sinkvars, purevars >>

\* A sleep that lasts the whole interval whatever the event, after which the
\* next iteration starts.
SleepTimeout_ignores_stop ==
    /\ runner = "sleeping"
    /\ now < MaxCycles
    /\ runner' = "cycle"
    /\ UNCHANGED << settings, now, checks, issues, alerts, results, failed_at,
                    stop_event, sinkvars, purevars >>

\* wait_for raises TimeoutError after the interval: `continue`, the event is
\* not set, the next iteration starts.
SleepTimeout ==
    /\ runner = "sleeping"
    /\ ~stop_event
    /\ now < MaxCycles
    /\ runner' = "cycle"
    /\ UNCHANGED << settings, now, checks, issues, alerts, results, failed_at,
                    stop_event, sinkvars, purevars >>

\* stop_event.wait() returns: the while condition is false, the loop ends.
SleepInterrupted ==
    /\ runner = "sleeping"
    /\ stop_event
    /\ runner' = "stopped"
    /\ UNCHANGED << settings, now, checks, issues, alerts, results, failed_at,
                    stop_event, sinkvars, purevars >>

\* lifespan, after the yield: monitor_stop.set()
set_stop ==
    /\ ~stop_event
    /\ stop_event' = TRUE
    /\ UNCHANGED << settings, now, checks, issues, alerts, results, failed_at,
                    runner, sinkvars, purevars >>

\* lifespan, next statement: monitor_task.cancel().  CancelledError is
\* raised at the await the task is suspended in; it is not an Exception, so
\* nothing in the loop catches it.  In a sleep the task just ends; in an
\* iteration the session is left without commit, at whichever await the
\* iteration had reached.
cancel_task ==
    /\ stop_event
    /\ \/ /\ runner = "sleeping"
          /\ UNCHANGED << settings, now, checks, issues, alerts, results,
                          failed_at >>
       \/ /\ runner = "cycle"
          /\ IterationFailed
    /\ runner' = "cancelled"
    /\ UNCHANGED << stop_event, sinkvars, purevars >>

NextLoop ==
    \/ RunnerCommitted
    \/ RunnerFailed
    \/ SleepTimeout
    \/ SleepInterrupted
    \/ set_stop
    \/ cancel_task

\* An iteration in flight reaches the end of its try statement.
IterationEnds == runner = "cycle" /\ runner' = "sleeping"

\* The event loop resumes the task when its await is done: an iteration in
\* flight ends (every probe has a timeout), a sleep ends at its timeout or
\* when the event is set.
FairLoop ==
    /\ WF_runner(IterationEnds)
    /\ WF_vars(SleepTimeout)
    /\ WF_vars(SleepInterrupted)

SpecLoop == Init /\ [][NextLoop]_vars /\ FairLoop

\* C17: once the stop signal is set, a sleeping loop does not wait for the
\* interval and starts no iteration any more: the only way out of the sleep
\* is to a terminal state, a terminal state is never left, and the task
\* eventually is in a terminal state.
C17_StopEndsTheLoop ==
    /\ [][ stop_event =>
             /\ runner = "sleeping" /\ runner' # "sleeping" => runner' \in Terminal
             /\ runner \in Terminal => runner' = runner
             /\ runner' = "cycle" => runner = "cycle" ]_vars
    /\ (stop_event ~> (runner \in Terminal))

\* The signal was set while the loop slept after a committed cycle, and the
\* loop ended by itself.
C17_Witness ==
    /\ stop_event
    /\ runner = "stopped"
    /\ checks # << >>

\* C18: a cycle that is in flight when the stop signal arrives runs to its
\* completion: an iteration in flight ends by its own commit or its own
\* exception, with the loop then at its sleep, never by being cancelled.
C18_InFlightCycleCompletes ==
    [][ runner = "cycle" => runner' \in {"cycle", "sleeping"} ]_vars

\* C19: an exception inside an iteration is caught at the iteration
\* boundary: the loop is then at its sleep, and while the stop signal is not
\* set another iteration starts after the interval.
C19_ExceptionKeepsLoopRunning ==
    /\ [][ runner = "cycle" /\ failed_at' # 0 /\ ~stop_event' =>
             runner' = "sleeping" ]_vars
    /\ ((runner = "sleeping" /\ failed_at # 0 /\ now < MaxCycles)
          ~> (runner = "cycle" \/ stop_event))

\* An iteration is in flight after one that failed.
C19_Witness ==
    /\ runner = "cycle"
    /\ failed_at # 0
    /\ ~stop_event

\* ========================================================== alerting sink
\* Number of cycles explored with the POSTs of the alerts failing or not.
MaxSinkCycles == 2

\* settings.monitoring_slack_webhook_url.strip()
Webhooks == { "", "https://hooks.slack.com/services/T000/B000/XXXX" }

\* What client.post(webhook, ...) does: a 2xx response, another response
\* (the response is not looked at), or an exception (timeout, DNS, ...).
PostOutcomes == { "ok", "non_2xx", "error" }

\* _send_slack_alert whose POST is not inside a try block.
SlackPost_unguarded(hook, outcome) ==
    IF hook = "" THEN "skipped"
    ELSE IF outcome = "ok" THEN "posted"
    ELSE IF outcome = "non_2xx" THEN "ignored"
    ELSE "raised"

\* What one call of _send_slack_alert ends as: "skipped" (no webhook, plain
\* return), "posted", "ignored" (a non-2xx answer, not inspected), "logged"
\* (the exception is caught and logged).  "raised" would be an exception
\* that leaves the function.
SlackPost(hook, outcome) ==
    IF hook = "" THEN "skipped"
    ELSE IF outcome = "ok" THEN "posted"
    ELSE IF outcome = "non_2xx" THEN "ignored"
    ELSE "logged"

\* Among the first k alerts of `sent`, those the webhook received.
RECURSIVE PostedOf(_, _, _)
PostedOf(sent, effect, k) ==
    IF k = 0 THEN << >>
    ELSE LET before == PostedOf(sent, effect, k - 1)
         IN  IF effect[k] = "posted" THEN Append(before, sent[k]) ELSE before

\* The position, in the results of a cycle, of the result an alert is about.
ResultOf(alert) ==
    CHOOSE i \in 1..Len(_build_check_specs) :
        _issue_fingerprint(_build_check_specs[i].check_key) = alert.fingerprint

InitSink ==
    /\ settings \in Settings
    /\ InitTables
    /\ InitRunner
    /\ InitIdle
    /\ webhook \in Webhooks
    /\ posts = << >>
    /\ InitPure

\* One iteration of monitoring_runner_loop in which the database does not
\* fail; outcomes[k] is what the POST of the k-th alert of the cycle does.
\* An exception leaving _send_slack_alert would leave _apply_issue_rules and
\* persist_monitoring_results too, and end the iteration without commit.
CycleAlerting ==
    /\ now < MaxSinkCycles
    /\ now' = now + 1
    /\ \E codes \in [ 1..Len(_build_check_specs) -> ProbeCodes ],
          outcomes \in [ 1..Len(_build_check_specs) -> PostOutcomes ] :
         LET rs == run_live_checks(codes, now + 1) IN
         \E prevs \in PrevChoices(rs) :
           LET full == persist_monitoring_results(Session, rs, prevs, Len(rs))
               sent == SubSeq(full.alerts, Len(alerts) + 1, Len(full.alerts))
               effect == [ k \in 1..Len(sent) |-> SlackPost(webhook, outcomes[k]) ]
               raising == { k \in 1..Len(sent) : effect[k] = "raised" }
           IN  IF raising = {}
               THEN /\ checks' = full.checks
                    /\ issues' = full.issues
                    /\ alerts' = full.alerts
                    /\ results' = full.results
                    /\ posts' = posts \o PostedOf(sent, effect, Len(sent))
                    /\ failed_at' = 0
               ELSE LET k == CHOOSE i \in raising : \A j \in raising : i <= j
                    IN  /\ alerts' = alerts \o SubSeq(sent, 1, k)
                        /\ posts' = posts \o PostedOf(sent, effect, k)
                        /\ failed_at' = ResultOf(sent[k])
                        /\ UNCHANGED << checks, issues, results >>
    /\ UNCHANGED << settings, loopvars, webhook, purevars >>

NextSink == CycleAlerting

SpecSink == InitSink /\ [][NextSink]_vars

\* The results of the cycle just persisted, as the probes returned them.
ProbedResults ==
    [ i \in 1..Len(results') |->
        _run_http_check(_build_check_specs[i], results'[i].http_status, now') ]

\* C20: the sink never fails its caller.  Without a webhook nothing is ever
\* sent; and whatever the POSTs of a cycle do, the cycle commits and the
\* check rows and issues it leaves are those of the rules applied to every
\* result of the cycle.
C20_SinkNeverPropagates ==
    /\ [](webhook = "" => posts = << >>)
    /\ [][ now' = now + 1 =>
             /\ failed_at' = 0
             /\ Len(results') = Len(_build_check_specs)
             /\ \E prevs \in PrevChoices(ProbedResults) :
                  LET full == persist_monitoring_results(
                                  Session, ProbedResults, prevs, Len(ProbedResults))
                  IN  /\ issues' = full.issues
                      /\ checks' = full.checks
                      /\ alerts' = full.alerts ]_vars

\* With a webhook configured, an alert was not delivered and the issue it
\* announced is in the table all the same.
C20_Witness ==
    /\ webhook # ""
    /\ failed_at = 0
    /\ \E k \in 1..Len(alerts) :
         /\ alerts[k].event = "opened"
         /\ \A j \in 1..Len(posts) : posts[j] # alerts[k]
         /\ \E i \in 1..Len(issues) :
              /\ issues[i].fingerprint = alerts[k].fingerprint
              /\ issues[i].status = "open"

\* ============================================== snapshot from the tables
\* Number of cycles a check may have stayed out of the registry before it
\* came back into it.
MaxAbsentCycles == 50

\* Seconds between two scheduler cycles (monitoring_interval_seconds = 30).
CycleSeconds == 30

\* .limit(max(len(check_keys) * 20, 100))
SnapshotLimit(specs) == Max(Len(specs) * 20, 100)

\* The row latest_by_key may hold for spec i after the snapshot query
\* (0: none).  The query sees the rows of the registry's keys, newest
\* first, cut at the limit; rows with equal checked_at are in any order.
\* The first row of a key is one of its newest rows, and it is in the
\* result unless `limit` rows come before it.
LatestByKey(tbl, specs, i) ==
    LET keys == { specs[k].check_key : k \in 1..Len(specs) }
        visible == { r \in 1..Len(tbl) : tbl[r].check_key \in keys }
        mine == { r \in visible : tbl[r].check_key = specs[i].check_key }
        top == { r \in mine : \A q \in mine : tbl[q].checked_at <= tbl[r].checked_at }
        newer(r) == Cardinality({ q \in visible : tbl[q].checked_at > tbl[r].checked_at })
        tied(r) == Cardinality({ q \in visible \ mine : tbl[q].checked_at = tbl[r].checked_at })
        limit == SnapshotLimit(specs)
    IN  IF mine = {} THEN {0}
        ELSE { r \in top : newer(r) < limit }
             \cup (IF \E r \in top : newer(r) + tied(r) >= limit THEN {0} ELSE {})

\* The values latest_by_key may have for the first n specs.
RECURSIVE LatestChoices(_, _, _)
LatestChoices(tbl, specs, n) ==
    IF n = 0 THEN { << >> }
    ELSE { Append(rows, r) : rows \in LatestChoices(tbl, specs, n - 1),
                             r \in LatestByKey(tbl, specs, n) }

\* The row as latest_service_items_from_db reads it (times in seconds).
LatestRowOf(tbl, r) ==
    IF r = 0 THEN [ status |-> "down", checked_at |-> NULL ]
    ELSE [ status |-> tbl[r].status, checked_at |-> tbl[r].checked_at * CycleSeconds ]

\* _build_check_specs with its conditional part: the eva-whatsapp spec is
\* appended only when settings.monitoring_whatsapp_health_url is set.
_build_check_specs_with(monitoring_whatsapp_health_url) ==
    _build_check_specs
    \o (IF monitoring_whatsapp_health_url # ""
        THEN << [check_key |-> "eva-whatsapp", critical |-> FALSE] >>
        ELSE << >>)

WhatsappUrl == "https://wa.example/health"

\* A check row of an earlier cycle.
PastRow(spec, status, at) ==
    [ check_key |-> spec.check_key, status |-> status,
      http_status |-> IF status = "up" THEN 200 ELSE 500,
      checked_at |-> at,
      details |-> [ critical |-> spec.critical,
                    consecutive_failures |-> IF status = "up" THEN 0 ELSE 1,
                    consecutive_successes |-> IF status = "up" THEN at + 1 ELSE 0,
                    last_success_at |-> IF status = "up" THEN at ELSE NULL ] ]

\* The rows of one cycle over a registry, every check up but the last one,
\* whose status is given.
PastCycle(specs, status, at) ==
    [ i \in 1..Len(specs) |->
        PastRow(specs[i], IF i = Len(specs) THEN status ELSE "up", at) ]

\* The check table after one cycle with the eva-whatsapp check followed by
\* n cycles of a service run without it (the setting was unset).
RECURSIVE History(_, _)
History(n, status) ==
    IF n = 0
    THEN PastCycle(_build_check_specs_with(WhatsappUrl), status, 0)
    ELSE History(n - 1, status) \o PastCycle(_build_check_specs_with(""), "up", n)

\* The registry of the running service.
Registry == _build_check_specs_with(WhatsappUrl)

\* The service has just started again with the setting set.
InitLatest ==
    /\ settings = DefaultSettings
    /\ \E n \in 0..MaxAbsentCycles, status \in {"up", "down"} :
         /\ now = n
         /\ checks = History(n, status)
    /\ issues = << >>
    /\ alerts = << >>
    /\ results = << >>
    /\ failed_at = 0
    /\ InitRunner
    /\ InitIdle
    /\ InitSinkOff
    /\ probe = [ phase |-> "none" ]
    /\ snapshot \in [ phase : {"ready"}, items : {<< >>},
                      stale_after_seconds : StaleAfterSeconds ]

\* latest_service_items_from_db(eva_db) on the check table.
ReadLatest ==
    /\ snapshot.phase = "ready"
    /\ \E rows \in LatestChoices(checks, Registry, Len(Registry)) :
         /\ snapshot' =
              [ snapshot EXCEPT
                  !.phase = "done",
                  !.items = latest_service_items_from_db(
                                Registry,
                                [ i \in 1..Len(Registry) |-> LatestRowOf(checks, rows[i]) ],
                                now * CycleSeconds,
                                snapshot.stale_after_seconds) ]
    /\ UNCHANGED << settings, now, checks, issues, alerts, results, failed_at,
                    loopvars, sinkvars, probe, concvars >>

NextLatest == ReadLatest

SpecLatest == InitLatest /\ [][NextLatest]_vars

\* The newest checked_at among the rows of a key.
NewestCheckedAt(check_key) ==
    LET rows == RowsOf(check_key) IN
    CHOOSE t \in { rows[k].checked_at : k \in 1..Len(rows) } :
        \A k \in 1..Len(rows) : rows[k].checked_at <= t

\* C21: the snapshot has exactly one item per check of the registry, in
\* registry order; the item of a check that has rows carries the checked_at
\* of the check's most recent row, and only a check without any row is the
\* placeholder (down, stale, no checked_at).
C21_OneItemPerCheck ==
    snapshot.phase = "done" =>
        /\ Len(snapshot.items) = Len(Registry)
        /\ \A i \in 1..Len(Registry) :
             LET item == snapshot.items[i]
                 check_key == Registry[i].check_key
             IN  /\ item.check_key = check_key
                 /\ IF RowsOf(check_key) = << >>
                    THEN item.checked_at = NULL /\ item.status = "down" /\ item.stale
                    ELSE item.checked_at = NewestCheckedAt(check_key) * CycleSeconds

\* monitoring_stale_after_seconds of config.py.
DefaultStaleAfterSeconds == 120

\* ======================================================== status query
\* Cycles' worth of time explored around status queries.
MaxStatusTime == 1

\* The outcomes of Depends(get_optional_eva_db): None or a session.  The
\* dependency yields None when no EVA database is configured and a session
\* when the database is configured and reachable (as get_eva_db does, which
\* commits when the handler returns).  A session is opened without a round
\* trip to the server, so for a configured database that cannot be reached
\* either outcome is possible.
get_optional_eva_db(configured, reachable) ==
    IF ~configured THEN { "none" }
    ELSE IF reachable THEN { "session" }
    ELSE { "none", "session" }

\* check_result_to_service_item(result), times in seconds.
check_result_to_service_item(result) ==
    [ check_key |-> result.check_key,
      status |-> result.status,
      checked_at |-> result.checked_at * CycleSeconds,
      critical |-> result.critical,
      stale |-> FALSE ]

\* The answer of GET /monitoring/services.
StatusResponse(phase, items, eva_db, reachable, refreshed) ==
    [ phase |-> phase, items |-> items, eva_db |-> eva_db,
      reachable |-> reachable, refreshed |-> refreshed ]

InitStatus ==
    /\ settings = DefaultSettings
    /\ InitTables
    /\ InitRunner
    /\ InitIdle
    /\ InitSinkOff
    /\ probe = [ phase |-> "none" ]
    /\ snapshot = StatusResponse("none", << >>, "none", TRUE, FALSE)

\* The scheduler's cycle between two requests.
StatusCycle ==
    /\ now < MaxStatusTime
    /\ CycleCommitted

\* service_status with eva_db None: a live cycle, nothing persisted.
service_status_live(at, reachable) ==
    /\ \E codes \in [ 1..Len(_build_check_specs) -> ProbeCodes ] :
         LET rs == run_live_checks(codes, at) IN
         snapshot' = StatusResponse("responded",
                         [ i \in 1..Len(rs) |-> check_result_to_service_item(rs[i]) ],
                         "none", reachable, FALSE)
    /\ UNCHANGED << checks, issues, alerts, results, failed_at >>

\* service_status with a session whose first statement raises: nothing
\* catches the exception, the dependency rolls back and the request fails.
service_status_raises(reachable) ==
    /\ snapshot' = StatusResponse("raised", << >>, "session", reachable, FALSE)
    /\ UNCHANGED << checks, issues, alerts, results, failed_at >>

\* service_status with a working session: the snapshot from the tables,
\* replaced by the results of a persisted cycle when it should be refreshed.
service_status_from_db(at) ==
    \E rows \in LatestChoices(checks, _build_check_specs, Len(_build_check_specs)) :
      LET service_items ==
              latest_service_items_from_db(
                  _build_check_specs,
                  [ i \in 1..Len(_build_check_specs) |-> LatestRowOf(checks, rows[i]) ],
                  at * CycleSeconds, DefaultStaleAfterSeconds)
      IN  IF should_refresh_service_snapshot(service_items, at * CycleSeconds, CycleSeconds)
          THEN \E codes \in [ 1..Len(_build_check_specs) -> ProbeCodes ] :
                 LET rs == run_live_checks(codes, at) IN
                 \E prevs \in PrevChoices(rs) :
                   LET s == persist_monitoring_results(Session, rs, prevs, Len(rs)) IN
                     /\ checks' = s.checks
                     /\ issues' = s.issues
                     /\ alerts' = s.alerts
                     /\ results' = s.results
                     /\ failed_at' = 0
                     /\ snapshot' = StatusResponse("responded",
                            [ i \in 1..Len(s.results) |->
                                check_result_to_service_item(s.results[i]) ],
                            "session", TRUE, TRUE)
          ELSE /\ snapshot' = StatusResponse("responded", service_items,
                                              "session", TRUE, FALSE)
               /\ UNCHANGED << checks, issues, alerts, results, failed_at >>

\* GET /monitoring/services, `elapsed` intervals after the last cycle.
service_status ==
    \E elapsed \in 0..(MaxStatusTime - now), configured \in BOOLEAN, reachable \in BOOLEAN :
      /\ now' = now + elapsed
      /\ \E eva_db \in get_optional_eva_db(configured, reachable) :
           IF eva_db = "none" THEN service_status_live(now + elapsed, reachable \/ ~configured)
           ELSE IF ~reachable THEN service_status_raises(reachable)
           ELSE service_status_from_db(now + elapsed)
      /\ UNCHANGED << settings, loopvars, sinkvars, probe, concvars >>

NextStatus == StatusCycle \/ service_status

SpecStatus == InitStatus /\ [][NextStatus]_vars

\* C22: a status query made while the persistence database cannot be
\* reached is answered, with one item per check of the registry, in
\* registry order.
C22_UnreachableFallsBackToLive ==
    (snapshot.phase # "none" /\ ~snapshot.reachable) =>
        /\ snapshot.phase = "responded"
        /\ Len(snapshot.items) = Len(_build_check_specs)
        /\ \A i \in 1..Len(_build_check_specs) :
             snapshot.items[i].check_key = _build_check_specs[i].check_key

\* ================================================ status classification
\* Status codes on both sides of and at the class boundaries.
StatusCodes ==
    { 100, 200, 204, 301, 302, 399, 400, 401, 403, 404, 429, 499, 500, 502,
      503, 599 }

\* success_statuses: the default (), the (200, 401, 403) of fmac-erp-backend
\* and other tuples of codes of every class.
SuccessStatuses == SUBSET { 200, 401, 403, 500 }

InitClassify ==
    /\ settings = DefaultSettings
    /\ InitTables
    /\ InitRunner
    /\ InitIdle
    /\ InitSinkOff
    /\ snapshot = [ phase |-> "none" ]
    /\ probe \in [ phase : {"ready"}, status_code : StatusCodes,
                   success_statuses : SuccessStatuses, status : {""} ]

\* classify_http_status(response.status_code, spec.success_statuses)
Classify ==
    /\ probe.phase = "ready"
    /\ probe' = [ probe EXCEPT
                    !.phase = "done",
                    !.status = classify_http_status(probe.status_code,
                                                    probe.success_statuses) ]
    /\ UNCHANGED << settings, now, checks, issues, alerts, results, failed_at,
                    loopvars, sinkvars, snapshot, concvars >>

NextClassify == Classify

SpecClassify == InitClassify /\ [][NextClassify]_vars

\* C23: the class of a status code is up when the code is one of the
\* overrides; otherwise up below 400, degraded from 400 to 499 and down
\* from 500 on.
C23_ClassifyHttpStatus ==
    probe.phase = "done" =>
        probe.status =
            IF probe.status_code \in probe.success_statuses THEN "up"
            ELSE IF probe.status_code < 400 THEN "up"
            ELSE IF probe.status_code >= 400 /\ probe.status_code < 500 THEN "degraded"
            ELSE "down"

\* An overridden client or server error was classified.
C23_Witness ==
    /\ probe.phase = "done"
    /\ probe.status_code \in probe.success_statuses
    /\ probe.status_code >= 400
    /\ probe.status = "up"

\* ------------------------------------------------------------------ C24
\* The number of rows up to row k of `rows`, counted backwards from k, that
\* are all up (up = TRUE) or all not up (up = FALSE).
RECURSIVE TrailingRun(_, _, _)
TrailingRun(rows, k, up) ==
    IF k = 0 \/ (rows[k].status = "up") # up THEN 0
    ELSE 1 + TrailingRun(rows, k - 1, up)

\* C24: in the rows persisted for one check_key by successive cycles, every
\* row's consecutive_successes is the length of the run of up rows that ends
\* with it and its consecutive_failures the length of the run of rows that
\* are not up (degraded or down alike) that ends with it; the results the
\* cycle returns carry the streaks of their rows.
C24_StreaksAreTrailingRuns ==
    \A i \in 1..Len(_build_check_specs) :
        LET rows == RowsOf(_build_check_specs[i].check_key) IN
        /\ \A k \in 1..Len(rows) :
             /\ rows[k].details.consecutive_successes = TrailingRun(rows, k, TRUE)
             /\ rows[k].details.consecutive_failures = TrailingRun(rows, k, FALSE)
        /\ results # << >> =>
             /\ results[i].consecutive_successes = TrailingRun(rows, Len(rows), TRUE)
             /\ results[i].consecutive_failures = TrailingRun(rows, Len(rows), FALSE)

\* A check was up, then degraded, then down: a failure streak of 2 made of
\* both failure states.
C24_Witness ==
    LET rows == RowsOf(_build_check_specs[1].check_key) IN
    /\ Len(rows) = 3
    /\ rows[1].status = "up"
    /\ rows[2].status = "degraded"
    /\ rows[3].status = "down"
    /\ rows[3].details.consecutive_failures = 2
    /\ rows[3].details.consecutive_successes = 0

\* ------------------------------------------------------------------ C25
\* The check row whose result last updated the issue: the row of the
\* issue's check with checked_at = last_seen_at (every branch of
\* _apply_issue_rules that writes to an issue sets last_seen_at to the
\* result's checked_at; the manual operations leave it alone).
CausingRows(issue) ==
    { r \in 1..Len(checks) :
        /\ _issue_fingerprint(checks[r].check_key) = issue.fingerprint
        /\ checks[r].checked_at = issue.last_seen_at }

\* C25: the severity stored in an issue is classify_issue_severity of the
\* result that last updated it, whether that result opened, reopened,
\* re-affirmed or resolved the issue (an up result gives low).
C25_SeverityOfCausingResult ==
    \A i \in 1..Len(issues) :
        /\ CausingRows(issues[i]) # {}
        /\ \A r \in CausingRows(issues[i]) :
             issues[i].severity =
                 classify_issue_severity(checks[r].status, checks[r].details.critical)

\* ------------------------------------------------------------------ C26
\* The result of the cycle just persisted for the check of an issue.
ResultFor(rs, fingerprint) ==
    rs[CHOOSE k \in 1..Len(rs) : _issue_fingerprint(rs[k].check_key) = fingerprint]

\* The open rule holds for a result.
OpenRuleHolds(r) ==
    /\ r.status \in FAILURE_STATES
    /\ r.consecutive_failures >= Threshold(r.critical)

\* C26: when a cycle's open rule fires for an issue that is open or
\* acknowledged, the cycle leaves the issue's status, acknowledged_at,
\* resolved_at and first_seen_at (and its fingerprint) as they were, adds
\* exactly 1 to occurrences, and sets last_seen_at, severity and summary
\* from the result.
C26_ReaffirmationFrame ==
    [][ \A i \in 1..Len(issues) :
          ( /\ checks' # checks
            /\ issues[i].status \in {"open", "acknowledged"}
            /\ OpenRuleHolds(ResultFor(results', issues[i].fingerprint)) )
          => LET r == ResultFor(results', issues[i].fingerprint) IN
             /\ issues'[i].status = issues[i].status
             /\ issues'[i].acknowledged_at = issues[i].acknowledged_at
             /\ issues'[i].resolved_at = issues[i].resolved_at
             /\ issues'[i].first_seen_at = issues[i].first_seen_at
             /\ issues'[i].fingerprint = issues[i].fingerprint
             /\ issues'[i].occurrences = issues[i].occurrences + 1
             /\ issues'[i].last_seen_at = r.checked_at
             /\ issues'[i].severity = classify_issue_severity(r.status, r.critical)
             /\ issues'[i].summary = _issue_summary(r) ]_vars

\* An acknowledged issue was re-affirmed by a later cycle and is still
\* acknowledged.
C26_Witness ==
    \E i \in 1..Len(issues) :
        /\ issues[i].status = "acknowledged"
        /\ issues[i].acknowledged_at # NULL
        /\ issues[i].last_seen_at > issues[i].acknowledged_at
        /\ issues[i].occurrences >= 2
        /\ issues[i].first_seen_at < issues[i].last_seen_at

\* ------------------------------------------------------------------ C28
\* C28: an iteration whose transaction is not committed (the database
\* raised while a result was handled, or the commit raised) has sent no
\* alert: the alerts sent are those sent before it.
C28_NoAlertWithoutCommit ==
    [][ (now' = now + 1 /\ failed_at' # 0) => alerts' = alerts ]_vars

\* ==================================================== overlapping cycles
\* Probes explored in a run of overlapping cycles.
MaxOverlapTime == 3

\* The part of a persisted session that is still to be committed, relative
\* to the committed tables it was computed from: the added check rows, the
\* added issues, and the issues changed (row number, row read, row written).
Pending(s) ==
    [ phase |-> "persisted",
      results |-> s.results,
      rows |-> SubSeq(s.checks, Len(checks) + 1, Len(s.checks)),
      inserts |-> SubSeq(s.issues, Len(issues) + 1, Len(s.issues)),
      updates |-> LET changed == { i \in 1..Len(issues) : s.issues[i] # issues[i] }
                      RECURSIVE AsSeq(_)
                      AsSeq(S) == IF S = {} THEN << >>
                                  ELSE LET i == CHOOSE x \in S : \A y \in S : x <= y
                                       IN  << [ id |-> i, read |-> issues[i],
                                                written |-> s.issues[i] ] >>
                                           \o AsSeq(S \ {i})
                  IN  AsSeq(changed) ]

\* The UPDATE of a flushed issue: the columns the transaction assigned a new
\* value to are written, the others keep their committed value.
WriteColumns(row, update) ==
    [ f \in DOMAIN row |->
        IF update.written[f] # update.read[f] THEN update.written[f] ELSE row[f] ]

RECURSIVE ApplyUpdates(_, _)
ApplyUpdates(tbl, updates) ==
    IF updates = << >> THEN tbl
    ELSE ApplyUpdates(
             [ tbl EXCEPT ![updates[1].id] = WriteColumns(@, updates[1]) ],
             Tail(updates))

\* fingerprint is unique in admin_monitoring_issues: the INSERT of an issue
\* whose fingerprint is already committed raises IntegrityError.
UniqueViolation(inserts) ==
    \E k \in 1..Len(inserts) : IssueRows(issues, inserts[k].fingerprint) # {}

\* service_status, holding a session, decides to call
\* run_monitoring_cycle(eva_db).
RefreshWanted(at) ==
    \E rows \in LatestChoices(checks, _build_check_specs, Len(_build_check_specs)) :
        should_refresh_service_snapshot(
            latest_service_items_from_db(
                _build_check_specs,
                [ i \in 1..Len(_build_check_specs) |-> LatestRowOf(checks, rows[i]) ],
                at * CycleSeconds, DefaultStaleAfterSeconds),
            at * CycleSeconds, CycleSeconds)

\* run_live_checks() of a caller: the results are stamped with the time of
\* the probes.
BeginCycle(c) ==
    /\ txn[c].phase = "idle"
    /\ now < MaxOverlapTime
    /\ c = "refresh" => RefreshWanted(now + 1)
    /\ now' = now + 1
    /\ \E codes \in [ 1..Len(_build_check_specs) -> ProbeCodes ] :
         txn' = [ txn EXCEPT ![c] = [ IdleTxn EXCEPT
                                        !.phase = "probed",
                                        !.results = run_live_checks(codes, now + 1) ] ]
    /\ UNCHANGED << settings, checks, issues, alerts, results, failed_at,
                    loopvars, sinkvars, probe, snapshot, sso >>

\* persist_monitoring_results(eva_db, results) of a caller, in its own
\* transaction: it reads the committed tables, its rows and issues stay
\* pending, its alerts are sent.
PersistCycle(c) ==
    /\ txn[c].phase = "probed"
    /\ \E prevs \in PrevChoices(txn[c].results) :
         LET s == persist_monitoring_results(Session, txn[c].results, prevs,
                                             Len(txn[c].results))
         IN  /\ alerts' = s.alerts
             /\ txn' = [ txn EXCEPT ![c] = Pending(s) ]
    /\ UNCHANGED << settings, now, checks, issues, results, failed_at,
                    loopvars, sinkvars, probe, snapshot, sso >>

\* The commit that ends the caller's transaction (eva_db.commit() of the
\* loop; the dependency's commit after service_status returned).  A unique
\* violation fails the flush: the transaction is rolled back.
CommitCycle(c) ==
    /\ txn[c].phase = "persisted"
    /\ IF UniqueViolation(txn[c].inserts)
       THEN /\ failed_at' = Len(txn[c].results) + 1
            /\ UNCHANGED << checks, issues, results >>
       ELSE /\ checks' = checks \o txn[c].rows
            /\ issues' = ApplyUpdates(issues, txn[c].updates) \o txn[c].inserts
            /\ results' = txn[c].results
            /\ failed_at' = 0
    /\ txn' = [ txn EXCEPT ![c] = IdleTxn ]
    /\ UNCHANGED << settings, now, alerts, loopvars, sinkvars, probe, snapshot, sso >>

NextOverlap ==
    \E c \in Callers : BeginCycle(c) \/ PersistCycle(c) \/ CommitCycle(c)

SpecOverlap == Init /\ [][NextOverlap]_vars

\* C27: for every check_key, the rows persisted by successive cycles have
\* strictly increasing checked_at, and the streaks of each row are
\* compute_streaks of the streaks of the row persisted just before it for
\* the key (0/0 for the first row).
C27_IncreasingHistory ==
    \A i \in 1..Len(_build_check_specs) :
        LET rows == RowsOf(_build_check_specs[i].check_key) IN
        \A k \in 1..Len(rows) :
            /\ k > 1 => rows[k].checked_at > rows[k - 1].checked_at
            /\ << rows[k].details.consecutive_failures,
                  rows[k].details.consecutive_successes >>
               = compute_streaks(
                     IF k = 1 THEN 0 ELSE rows[k - 1].details.consecutive_failures,
                     IF k = 1 THEN 0 ELSE rows[k - 1].details.consecutive_successes,
                     rows[k].status)

\* C29: there is at most one issue row per fingerprint and at most one
\* "opened" alert was sent per fingerprint.
C29_OneIssueOneOpenedAlert ==
    \A i \in 1..Len(_build_check_specs) :
        LET fingerprint == _issue_fingerprint(_build_check_specs[i].check_key) IN
        /\ Cardinality(IssueRows(issues, fingerprint)) <= 1
        /\ Len(SelectSeq(EventsFor(alerts, fingerprint), LAMBDA e : e = "opened")) <= 1

\* ============================================================ SSO login
\* sso_login requests explored in one run.
MaxRequests == 3

\* The tokens presented: a token that passes jose_jwt.decode and the issuer
\* test, for a subject with an active ERP account; one for a subject
\* without an active account; one that fails validation.
Tokens ==
    { [ jti |-> "jti-1", valid |-> TRUE, active |-> TRUE ],
      [ jti |-> "jti-2", valid |-> TRUE, active |-> FALSE ],
      [ jti |-> "jti-3", valid |-> FALSE, active |-> TRUE ] }

\* The answers of sso_login.
SessionCreated == "307 /dashboard"
AlreadyUsed == "401 SSO token already used"
InvalidToken == "401 Invalid SSO token"
NoAccount == "403 No active ERP account for this email"

\* The requests whose INSERT into consumed_sso_tokens is not yet committed
\* or rolled back.
Holders(jti) ==
    { r \in 1..Len(sso.requests) :
        sso.requests[r].phase = "held" /\ sso.requests[r].token.jti = jti }

\* GET /sso?token=...: the token is decoded and validated (steps 1 and 2 up
\* to the INSERT).
sso_login_begin(token) ==
    /\ Len(sso.requests) < MaxRequests
    /\ sso' = [ sso EXCEPT !.requests =
                  Append(@, IF token.valid
                            THEN [ token |-> token, phase |-> "insert", answer |-> "" ]
                            ELSE [ token |-> token, phase |-> "done",
                                   answer |-> InvalidToken ]) ]

\* The INSERT that takes no notice of the row of another request: every
\* request inserts.
sso_login_insert_without_conflict(r) ==
    /\ sso.requests[r].phase = "insert"
    /\ sso' = [ sso EXCEPT !.requests[r].phase = "held" ]

\* INSERT ... ON CONFLICT (jti) DO NOTHING RETURNING jti.  The statement
\* waits while another transaction holds an uncommitted row with the jti;
\* with a committed row it inserts nothing and rowcount is 0.
sso_login_insert(r) ==
    /\ sso.requests[r].phase = "insert"
    /\ Holders(sso.requests[r].token.jti) = {}
    /\ sso' = IF sso.requests[r].token.jti \in sso.consumed
              THEN [ sso EXCEPT !.requests[r].phase = "done",
                                !.requests[r].answer = AlreadyUsed ]
              ELSE [ sso EXCEPT !.requests[r].phase = "held" ]

\* Steps 3 and 4: without an active user the request is rejected and get_db
\* rolls the INSERT back; otherwise the cookies are set and db.commit()
\* makes the INSERT durable.
sso_login_finish(r) ==
    /\ sso.requests[r].phase = "held"
    /\ sso' = IF sso.requests[r].token.active
              THEN [ sso EXCEPT !.consumed = @ \cup { sso.requests[r].token.jti },
                                !.requests[r].phase = "done",
                                !.requests[r].answer = SessionCreated ]
              ELSE [ sso EXCEPT !.requests[r].phase = "done",
                                !.requests[r].answer = NoAccount ]

SsoFrame ==
    UNCHANGED << settings, now, checks, issues, alerts, results, failed_at,
                 loopvars, sinkvars, probe, snapshot, txn >>

SsoBegin == (\E token \in Tokens : sso_login_begin(token)) /\ SsoFrame

SsoInsert == (\E r \in 1..Len(sso.requests) : sso_login_insert(r)) /\ SsoFrame

SsoFinish == (\E r \in 1..Len(sso.requests) : sso_login_finish(r)) /\ SsoFrame

NextSso == SsoBegin \/ SsoInsert \/ SsoFinish

InitSso ==
    /\ settings = DefaultSettings
    /\ InitTables
    /\ InitRunner
    /\ InitIdle
    /\ InitSinkOff
    /\ InitPure

SpecSso == InitSso /\ [][NextSso]_vars

\* The answered requests that presented a valid token with the jti, and
\* those among them that created a session.
AnsweredFor(jti) ==
    { r \in 1..Len(sso.requests) :
        /\ sso.requests[r].phase = "done"
        /\ sso.requests[r].token.valid
        /\ sso.requests[r].token.jti = jti }

SessionsFor(jti) ==
    { r \in AnsweredFor(jti) : sso.requests[r].answer = SessionCreated }

ValidJtis == { token.jti : token \in { t \in Tokens : t.valid } }

\* C30: of the requests that present the same valid token, in any
\* interleaving, at most one creates a session; once one has, every other
\* answered request was rejected with 401 "SSO token already used".  A
\* request that creates no session is rejected (401, or 403 when the
\* token's subject has no active account), and a jti is consumed exactly
\* when a request created a session with it.
C30_SingleUse ==
    \A jti \in ValidJtis :
        /\ Cardinality(SessionsFor(jti)) <= 1
        /\ SessionsFor(jti) # {} =>
             \A r \in AnsweredFor(jti) \ SessionsFor(jti) :
                 sso.requests[r].answer = AlreadyUsed
        /\ \A r \in AnsweredFor(jti) \ SessionsFor(jti) :
             sso.requests[r].answer \in { AlreadyUsed, NoAccount }
        /\ jti \in sso.consumed <=> SessionsFor(jti) # {}

\* Three requests presented the same token of an active user: one created
\* the session, the two others were answered "already used".
C30_Witness ==
    /\ Len(sso.requests) = 3
    /\ \A r \in 1..3 : sso.requests[r].token.jti = "jti-1" /\ sso.requests[r].phase = "done"
    /\ Cardinality(SessionsFor("jti-1")) = 1
    /\ Cardinality({ r \in 1..3 : sso.requests[r].answer = AlreadyUsed }) = 2
====
